---- MODULE Spec2Model ----
(***************************************************************************)
(* fastasplit: split a FASTA file into smaller FASTA files.                *)
(* Model of src/fastasplit/fastasplit.py: one run of the command line      *)
(* program, from argument parsing (_main) through the counting pass        *)
(* (get_seq_num), the confirmation prompt (confirm_continue) and the       *)
(* write pass of the selected mode (splite, splits, splitn).               *)
(*                                                                         *)
(* A line is the sequence of its characters without the trailing newline;  *)
(* a string (prefix, file name) is a sequence of characters too.           *)
(***************************************************************************)
EXTENDS Integers, Sequences, FiniteSets, TLC

VARIABLES
    argv,        \* the options given on the command line
    input,       \* the lines of the fasta source (file or standard input)
    args,        \* the namespace parse_args returns
    pc,          \* position of the run
    exitStatus,  \* process exit status once pc = "done"
    error,       \* what ended the run: "" for a normal end
    seqnum,      \* get_seq_num's result (seqnum / nseq), Unknown before
    nfile,       \* splits: planned number of files, Unknown on stdin
    ndigits,     \* width of the zero padded index (ndigits / ndigit)
    splitnum,    \* index of the next (splite) / current (splits, splitn) file
    seqcount,    \* headers counted into the current file
    perfile,     \* splitn: seqnum // num
    remain,      \* splitn: files still owed one extra sequence
    perthisfile, \* splitn: quota of the current file
    pos,         \* lines of the write pass already consumed
    splitfile,   \* the name the variable splitfile is bound to, None if unbound
    fs,          \* the output directory: file name -> lines written
    created,     \* names passed to open(.., 'w'), in order
    closed,      \* indices of created whose handle got an explicit close()
    inOpen,      \* number of open handles on the fasta source
    prompted,    \* confirm_continue has asked its question
    answer,      \* the operator's last answer, "" before any
    stdout,      \* messages printed
    first        \* the outcome of an earlier run of the command, None before

vars == <<argv, input, args, pc, exitStatus, error, seqnum, nfile, ndigits,
          splitnum, seqcount, perfile, remain, perthisfile, pos, splitfile,
          fs, created, closed, inOpen, prompted, answer, stdout, first>>

----------------------------------------------------------------------------
(* Bounds of the model *)

\* longest short input, in lines
MaxLen == 3
\* largest small value given to -n
MaxNum == 2

----------------------------------------------------------------------------
(* Values *)

None == <<>>
Some(v) == <<v>>
Val(o) == o[1]

\* 'unknown' (seqnum in splite, nfile in splits when reading stdin)
Unknown == 0 - 1

\* confirm_continue's limit
Limit == 100

\* ndigits / ndigit when the source is standard input
StdinDigits == 3

\* -v can be given up to 3 times
MaxVerbose == 3

\* argparse default of -p/--prefix
DefaultPrefix == <<"s", "p", "l", "i", "t">>

\* the positional argument: a path, or '-' for standard input
Stdin == "-"
Path == "in.fa"

\* header and body lines the inputs are made of
HeaderFull == <<">", "a", " ", "d">>
HeaderBare == <<">", " ", "b">>
Body == <<"A", "C">>
Lines == {HeaderFull, HeaderBare, Body}

RECURSIVE SeqsUpTo(_, _)
SeqsUpTo(S, n) ==
    IF n = 0 THEN {<<>>}
    ELSE LET shorter == SeqsUpTo(S, n - 1)
         IN  shorter \cup {Append(s, x) : s \in {t \in shorter : Len(t) = n - 1}, x \in S}

\* an input with more sequences than confirm_continue's limit
LongInput == <<HeaderFull, Body>> \o [i \in 1..Limit |-> HeaderBare]

Inputs == SeqsUpTo(Lines, MaxLen) \cup {LongInput}

----------------------------------------------------------------------------
(* Strings *)

IsSpace(c) == c = " "

\* line[0] == '>'
IsHeader(line) == Len(line) > 0 /\ line[1] = ">"

\* number of lines of `lines` that are headers
RECURSIVE CountHeaders(_)
CountHeaders(lines) ==
    IF lines = <<>> THEN 0
    ELSE (IF IsHeader(Head(lines)) THEN 1 ELSE 0) + CountHeaders(Tail(lines))

RECURSIVE LStrip(_)
LStrip(s) == IF s # <<>> /\ IsSpace(Head(s)) THEN LStrip(Tail(s)) ELSE s

RECURSIVE RStrip(_)
RStrip(s) ==
    IF s # <<>> /\ IsSpace(s[Len(s)]) THEN RStrip(SubSeq(s, 1, Len(s) - 1)) ELSE s

\* str.strip(): the line without its newline and surrounding blanks
Strip(s) == RStrip(LStrip(s))

\* str.split(): the maximal runs of non-blank characters
RECURSIVE SplitFrom(_, _, _)
SplitFrom(s, word, words) ==
    IF s = <<>> THEN (IF word = <<>> THEN words ELSE Append(words, word))
    ELSE IF IsSpace(Head(s))
         THEN SplitFrom(Tail(s), <<>>, IF word = <<>> THEN words ELSE Append(words, word))
         ELSE SplitFrom(Tail(s), Append(word, Head(s)), words)

Split(s) == SplitFrom(s, <<>>, <<>>)

\* len(str(n)) for n >= 0
RECURSIVE Digits(_)
Digits(n) == IF n < 10 THEN 1 ELSE 1 + Digits(n \div 10)

DigitChar(d) == <<"0", "1", "2", "3", "4", "5", "6", "7", "8", "9">>[d + 1]

\* str(n) for n >= 0
RECURSIVE Str(_)
Str(n) == IF n < 10 THEN <<DigitChar(n)>> ELSE Append(Str(n \div 10), DigitChar(n % 10))

RECURSIVE Zeros(_)
Zeros(k) == IF k <= 0 THEN <<>> ELSE <<"0">> \o Zeros(k - 1)

\* f"{n:0{width}d}": zero padded to width, never truncated
ZPad(n, width) == Zeros(width - Len(Str(n))) \o Str(n)

Suffix == <<".", "f", "a">>

\* f"{prefix}.{n:0{width}d}.fa"
IndexedName(prefix, n, width) == prefix \o <<".">> \o ZPad(n, width) \o Suffix

\* splite, lines 98-99: the header's first word without '>', the second word
\* when the first is a bare '>'; None when words[1] does not exist (IndexError)
WordName(line) ==
    LET words == Split(Strip(line))
    IN  IF Len(words[1]) > 1 THEN Some(Tail(words[1]) \o Suffix)
        ELSE IF Len(words) > 1 THEN Some(words[2] \o Suffix)
        ELSE None

\* splite, line 96: the stripped header without '>'
FullName(line) == Tail(Strip(line))

\* splite, lines 87-99: the name of the file a header line opens
SpliteName(a, line, n, width) ==
    IF a.prefix # None THEN Some(IndexedName(Val(a.prefix), n, width))
    ELSE IF a.full THEN Some(FullName(line))
    ELSE WordName(line)

----------------------------------------------------------------------------
(* The command line *)

NumArgs == (0..MaxNum) \cup {Limit + 1}

\* -f changes nothing while args.prefix is set (splite, line 87), and
\* parse_args always sets it: the runs are taken without -f
ArgvSpace ==
    [fasta : {Path, Stdin},
     num : {None} \cup {Some(n) : n \in NumArgs},
     seqnum : BOOLEAN,
     every : BOOLEAN,
     force : BOOLEAN,
     prefix : {None, Some(<<"p">>)},
     full : {FALSE},
     quiet : BOOLEAN,
     verbose : 0..MaxVerbose]

\* what the operator may type at the prompt
Answers == {"y", "Y", "n", "N", "x"}

\* str.lower()
Lower(c) == IF c = "Y" THEN "y" ELSE IF c = "N" THEN "n" ELSE c

\* pos_int: the value of -n must be a positive integer
pos_int(num) == num > 0

\* parse_args ends the run with a usage error: -n is required unless -e is
\* given, and its value must pass pos_int
ParseFails(v) ==
    \/ v.num = None /\ ~v.every
    \/ v.num # None /\ ~pos_int(Val(v.num))

\* the namespace parse_args returns: the options with argparse's defaults
ParseArgs(v) ==
    [v EXCEPT !.prefix = IF v.prefix = None THEN Some(DefaultPrefix) ELSE v.prefix]

\* the test on -s inverted
StdinRejectedInverted(a) == a.fasta = Stdin /\ (a.num # None /\ a.seqnum = TRUE)

\* _main, line 261: standard input needs -s whenever -n is given
StdinRejected(a) == a.fasta = Stdin /\ (a.num # None /\ a.seqnum = FALSE)

\* _main, lines 269-274
Mode(a) == IF a.every THEN "splite" ELSE IF a.seqnum THEN "splits" ELSE "splitn"

\* the question asked one file too late
NeedsConfirmLate(nfiles, force, limit) == force # TRUE /\ nfiles > limit + 1

\* confirm_continue, lines 37-38: the question is asked
NeedsConfirm(nfiles, force, limit) == force # TRUE /\ nfiles > limit

Msg(m, n, of, text) == [msg |-> m, n |-> n, of |-> of, text |-> text]

\* print unless quiet
Say(a, out, m) == IF a.quiet THEN out ELSE Append(out, m)

\* get_seq_num: the number of header lines
get_seq_num(lines) == CountHeaders(lines)

\* a counting pass that leaves its handle on the fasta source open
KeepInput(n) == n

\* get_seq_num, line 61: leaving the with block closes the handle
CloseInput(n) == n - 1

\* open(name, 'a'): the file exists and keeps what it held
OpenAppend(fsys, name) ==
    [f \in DOMAIN fsys \cup {name} |-> IF f \in DOMAIN fsys THEN fsys[f] ELSE <<>>]

\* open(name, 'w'): the file exists and is empty
OpenW(fsys, name) ==
    [f \in DOMAIN fsys \cup {name} |-> IF f = name THEN <<>> ELSE fsys[f]]

\* a write that leaves the header lines out
WriteBodyOnly(fsys, name, line) ==
    IF IsHeader(line) THEN fsys ELSE [fsys EXCEPT ![name] = Append(@, line)]

\* splitfile.write(line)
WriteLine(fsys, name, line) == [fsys EXCEPT ![name] = Append(@, line)]

----------------------------------------------------------------------------
(* The run *)

Init ==
    /\ argv \in ArgvSpace
    /\ input \in Inputs
    /\ args = argv
    /\ pc = "start"
    /\ exitStatus = 0
    /\ error = ""
    /\ seqnum = Unknown
    /\ nfile = Unknown
    /\ ndigits = 0
    /\ splitnum = 0
    /\ seqcount = 0
    /\ perfile = 0
    /\ remain = 0
    /\ perthisfile = 0
    /\ pos = 0
    /\ splitfile = None
    /\ fs = <<>>
    /\ created = <<>>
    /\ closed = {}
    /\ inOpen = 0
    /\ prompted = FALSE
    /\ answer = ""
    /\ stdout = <<>>
    /\ first = None

\* the process ends with `status`
Exit(status, why) ==
    /\ pc' = "done"
    /\ exitStatus' = status
    /\ error' = why

\* _main: parse the command line, reject standard input without -s, dispatch
Main ==
    /\ pc = "start"
    /\ IF ParseFails(argv)
       THEN /\ Exit(2, "usage")
            /\ UNCHANGED <<args, stdout>>
       ELSE LET a == ParseArgs(argv)
            IN  /\ args' = a
                /\ stdout' = Append(stdout, Msg("args", 0, 0, <<>>))
                /\ IF StdinRejected(a)
                   THEN Exit(1, "ArgumentError")
                   ELSE /\ pc' = IF Mode(a) = "splitn"
                                 THEN (IF NeedsConfirm(Val(a.num), a.force, Limit)
                                       THEN "confirm" ELSE "count")
                                 ELSE (IF a.fasta # Stdin THEN "count" ELSE "open")
                        /\ UNCHANGED <<exitStatus, error>>
    /\ UNCHANGED <<argv, input, seqnum, nfile, ndigits, splitnum, seqcount, perfile,
                   remain, perthisfile, pos, splitfile, fs, created, closed, inOpen,
                   prompted, answer, first>>

\* splits, line 109: the planned number of files
PlannedFiles(nseq, num) == (nseq \div num) + (IF nseq % num > 0 THEN 1 ELSE 0)

\* the quota with the test remain >= 0 in place of remain > 0
QuotaOffByOne(per, rem) == IF rem >= 0 THEN per + 1 ELSE per

\* splitn, lines 162-166 and 187-191: the quota of the file being opened
Quota(per, rem) == IF rem > 0 THEN per + 1 ELSE per

\* get_fasta_file for the counting pass and get_seq_num up to its with block:
\* the fasta source is opened and the first message printed
CountOpen ==
    /\ pc = "count"
    /\ inOpen' = inOpen + 1
    /\ stdout' = Say(args, stdout, Msg("counting", 0, 0, <<>>))
    /\ pc' = "counting"
    /\ UNCHANGED <<argv, input, args, exitStatus, error, seqnum, nfile, ndigits,
                   splitnum, seqcount, perfile, remain, perthisfile, pos, splitfile,
                   fs, created, closed, prompted, answer, first>>

\* splite, lines 73-76: count the sequences, then confirm
SpliteCount ==
    /\ pc = "counting"
    /\ Mode(args) = "splite"
    /\ LET n == get_seq_num(input)
       IN  /\ seqnum' = n
           /\ stdout' = Say(args, stdout, Msg("found", n, 0, <<>>))
           /\ inOpen' = CloseInput(inOpen)
           /\ pc' = IF NeedsConfirm(n, args.force, Limit) THEN "confirm" ELSE "open"
    /\ UNCHANGED <<argv, input, args, exitStatus, error, nfile, ndigits, splitnum,
                   seqcount, perfile, remain, perthisfile, pos, splitfile, fs, created,
                   closed, prompted, answer, first>>

\* splits, lines 107-111: count the sequences, plan the files, then confirm
SplitsCount ==
    /\ pc = "counting"
    /\ Mode(args) = "splits"
    /\ LET n == get_seq_num(input)
           files == PlannedFiles(n, Val(args.num))
       IN  /\ seqnum' = n
           /\ nfile' = files
           /\ stdout' = Say(args, stdout, Msg("found", n, 0, <<>>))
           /\ inOpen' = CloseInput(inOpen)
           /\ pc' = IF NeedsConfirm(files, args.force, Limit) THEN "confirm" ELSE "open"
    /\ UNCHANGED <<argv, input, args, exitStatus, error, ndigits, splitnum, seqcount,
                   perfile, remain, perthisfile, pos, splitfile, fs, created, closed,
                   prompted, answer, first>>

\* splitn, lines 150-153: count the sequences and compute the even share
SplitnCount ==
    /\ pc = "counting"
    /\ Mode(args) = "splitn"
    /\ LET n == get_seq_num(input)
       IN  /\ seqnum' = n
           /\ perfile' = n \div Val(args.num)
           /\ remain' = n % Val(args.num)
           /\ ndigits' = Digits(Val(args.num))
           /\ stdout' = Say(args, stdout, Msg("found", n, 0, <<>>))
           /\ inOpen' = CloseInput(inOpen)
           /\ pc' = "open"
    /\ UNCHANGED <<argv, input, args, exitStatus, error, nfile, splitnum, seqcount,
                   perthisfile, pos, splitfile, fs, created, closed, prompted, answer,
                   first>>

\* the number of files confirm_continue is called with
ConfirmCount ==
    IF Mode(args) = "splite" THEN seqnum
    ELSE IF Mode(args) = "splits" THEN nfile
    ELSE Val(args.num)

\* confirm_continue with a caller that ignores its result: n continues like y
ConfirmIgnored ==
    /\ pc = "confirm"
    /\ \E ans \in Answers :
         /\ answer' = ans
         /\ IF Lower(ans) \in {"n", "y"}
            THEN pc' = IF Mode(args) = "splitn" THEN "count" ELSE "open"
            ELSE UNCHANGED pc
    /\ prompted' = TRUE
    /\ UNCHANGED <<argv, input, args, exitStatus, error, seqnum, nfile, ndigits,
                   splitnum, seqcount, perfile, remain, perthisfile, pos, splitfile,
                   fs, created, closed, inOpen, stdout, first>>

\* confirm_continue, lines 39-45, and the caller's sys.exit(2): one answer of
\* the operator; any answer but y and n asks again
Confirm ==
    /\ pc = "confirm"
    /\ \E ans \in Answers :
         LET cont == Lower(ans)
         IN  /\ answer' = ans
             /\ IF cont = "n" THEN Exit(2, "UserAborted")
                ELSE IF cont = "y"
                     THEN /\ pc' = IF Mode(args) = "splitn" THEN "count" ELSE "open"
                          /\ UNCHANGED <<exitStatus, error>>
                     ELSE UNCHANGED <<pc, exitStatus, error>>
    /\ prompted' = TRUE
    /\ UNCHANGED <<argv, input, args, seqnum, nfile, ndigits, splitnum, seqcount,
                   perfile, remain, perthisfile, pos, splitfile, fs, created, closed,
                   inOpen, stdout, first>>

\* the write pass ends with an uncaught exception: the with block closes the
\* fasta source and the process exits with status 1
Raise(why) ==
    /\ Exit(1, why)
    /\ inOpen' = 0
    /\ UNCHANGED <<pos, splitfile, fs, created, closed, splitnum, seqcount, remain,
                   perthisfile, stdout>>

\* splite, lines 77-84: the index width, the fasta source opened again
SpliteOpen ==
    /\ pc = "open"
    /\ Mode(args) = "splite"
    /\ ndigits' = IF args.fasta # Stdin THEN Digits(seqnum) ELSE StdinDigits
    /\ splitnum' = 1
    /\ inOpen' = inOpen + 1
    /\ pc' = "write"
    /\ UNCHANGED <<argv, input, args, exitStatus, error, seqnum, nfile, seqcount,
                   perfile, remain, perthisfile, pos, splitfile, fs, created, closed,
                   prompted, answer, stdout, first>>

\* splite, lines 89-94: the message for a new file
SpliteMsgs(a, out, n, total, line) ==
    IF a.prefix # None /\ ~a.quiet
    THEN IF a.verbose > 0 THEN Append(out, Msg("creating", n, total, <<>>))
         ELSE IF a.verbose > 1 THEN Append(out, Msg("creating", n, total, Tail(Strip(line))))
         ELSE out
    ELSE out

\* splite's line step with body lines skipped while no split file is open
SpliteLineSkips ==
    /\ pc = "write"
    /\ Mode(args) = "splite"
    /\ pos < Len(input)
    /\ LET line == input[pos + 1]
           name == SpliteName(args, line, splitnum, ndigits)
       IN  IF IsHeader(line)
           THEN IF name = None
                THEN Raise("IndexError")
                ELSE /\ fs' = OpenW(fs, Val(name))
                     /\ created' = Append(created, Val(name))
                     /\ stdout' = SpliteMsgs(args, stdout, splitnum, seqnum, line)
                     /\ pc' = "bind"
                     /\ UNCHANGED <<exitStatus, error, inOpen, closed, seqcount, remain,
                                    perthisfile, splitfile, splitnum, pos>>
           ELSE IF splitfile = None
                THEN /\ pos' = pos + 1
                     /\ UNCHANGED <<pc, exitStatus, error, inOpen, closed, seqcount,
                                    remain, perthisfile, created, splitfile, splitnum,
                                    stdout, fs>>
                ELSE /\ fs' = WriteLine(fs, Val(splitfile), line)
                     /\ pos' = pos + 1
                     /\ UNCHANGED <<pc, exitStatus, error, inOpen, closed, seqcount,
                                    remain, perthisfile, created, splitfile, splitnum,
                                    stdout>>
    /\ UNCHANGED <<argv, input, args, seqnum, nfile, ndigits, perfile, prompted, answer,
                   first>>

\* splite, lines 85-102: one line of the write pass. At a header line the
\* new split file is opened (the right-hand side of line 100) while splitfile
\* still refers to the previous one
SpliteLine ==
    /\ pc = "write"
    /\ Mode(args) = "splite"
    /\ pos < Len(input)
    /\ LET line == input[pos + 1]
           name == SpliteName(args, line, splitnum, ndigits)
       IN  IF IsHeader(line)
           THEN IF name = None
                THEN Raise("IndexError")
                ELSE /\ fs' = OpenW(fs, Val(name))
                     /\ created' = Append(created, Val(name))
                     /\ stdout' = SpliteMsgs(args, stdout, splitnum, seqnum, line)
                     /\ pc' = "bind"
                     /\ UNCHANGED <<exitStatus, error, inOpen, closed, seqcount, remain,
                                    perthisfile, splitfile, splitnum, pos>>
           ELSE IF splitfile = None
                THEN Raise("UnboundLocalError")
                ELSE /\ fs' = WriteLine(fs, Val(splitfile), line)
                     /\ pos' = pos + 1
                     /\ UNCHANGED <<pc, exitStatus, error, inOpen, closed, seqcount,
                                    remain, perthisfile, created, splitfile, splitnum,
                                    stdout>>
    /\ UNCHANGED <<argv, input, args, seqnum, nfile, ndigits, perfile, prompted, answer,
                   first>>

\* splite, lines 100-102: splitfile is bound to the file just opened, which
\* drops the last reference to the previous one without a close(); the header
\* line is written
SpliteBind ==
    /\ pc = "bind"
    /\ LET name == created[Len(created)]
       IN  /\ splitfile' = Some(name)
           /\ fs' = WriteLine(fs, name, input[pos + 1])
    /\ splitnum' = splitnum + 1
    /\ pos' = pos + 1
    /\ pc' = "write"
    /\ UNCHANGED <<argv, input, args, exitStatus, error, seqnum, nfile, ndigits,
                   seqcount, perfile, remain, perthisfile, created, closed, inOpen,
                   prompted, answer, stdout, first>>

\* splits, lines 123-126 and 136-139: the messages for a new file
SplitsMsgs(a, out, n, total) ==
    IF a.quiet THEN out
    ELSE LET o == Append(out, Msg("creating", n, total, <<>>))
         IN  IF a.verbose > 0 THEN Append(o, Msg("contain", n, Val(a.num), <<>>)) ELSE o

\* splits, lines 112-127: the index width, the fasta source opened again,
\* the first split file opened
SplitsOpen ==
    /\ pc = "open"
    /\ Mode(args) = "splits"
    /\ LET width == IF args.fasta # Stdin THEN Digits(nfile) ELSE StdinDigits
           name == IndexedName(Val(args.prefix), 1, width)
       IN  /\ ndigits' = width
           /\ inOpen' = inOpen + 1
           /\ splitnum' = 1
           /\ fs' = OpenW(fs, name)
           /\ created' = Append(created, name)
           /\ splitfile' = Some(name)
           /\ stdout' = SplitsMsgs(args, stdout, 1, nfile)
           /\ seqcount' = 0
           /\ pc' = "write"
    /\ UNCHANGED <<argv, input, args, exitStatus, error, seqnum, nfile, perfile, remain,
                   perthisfile, pos, closed, prompted, answer, first>>

\* splits' line step with seqcount += 1 moved out of the header test: every
\* line counts against the quota
SplitsLineCountsAll ==
    /\ pc = "write"
    /\ Mode(args) = "splits"
    /\ pos < Len(input)
    /\ LET line == input[pos + 1]
           name == IndexedName(Val(args.prefix), splitnum + 1, ndigits)
       IN  IF IsHeader(line) /\ seqcount + 1 > Val(args.num)
           THEN /\ closed' = closed \cup {Len(created)}
                /\ splitnum' = splitnum + 1
                /\ fs' = WriteLine(OpenW(fs, name), name, line)
                /\ created' = Append(created, name)
                /\ splitfile' = Some(name)
                /\ stdout' = SplitsMsgs(args, stdout, splitnum + 1, nfile)
                /\ seqcount' = 1
           ELSE /\ seqcount' = seqcount + 1
                /\ fs' = WriteLine(fs, Val(splitfile), line)
                /\ UNCHANGED <<closed, splitnum, created, splitfile, stdout>>
    /\ pos' = pos + 1
    /\ UNCHANGED <<argv, input, args, pc, exitStatus, error, seqnum, nfile, ndigits,
                   perfile, remain, perthisfile, inOpen, prompted, answer, first>>

\* splits' line step with seqcount = 1 moved under `if not args.quiet`
SplitsLineQuietReset ==
    /\ pc = "write"
    /\ Mode(args) = "splits"
    /\ pos < Len(input)
    /\ LET line == input[pos + 1]
           name == IndexedName(Val(args.prefix), splitnum + 1, ndigits)
       IN  IF IsHeader(line) /\ seqcount + 1 > Val(args.num)
           THEN /\ closed' = closed \cup {Len(created)}
                /\ splitnum' = splitnum + 1
                /\ fs' = WriteLine(OpenW(fs, name), name, line)
                /\ created' = Append(created, name)
                /\ splitfile' = Some(name)
                /\ stdout' = SplitsMsgs(args, stdout, splitnum + 1, nfile)
                /\ seqcount' = IF args.quiet THEN seqcount + 1 ELSE 1
           ELSE /\ seqcount' = IF IsHeader(line) THEN seqcount + 1 ELSE seqcount
                /\ fs' = WriteLine(fs, Val(splitfile), line)
                /\ UNCHANGED <<closed, splitnum, created, splitfile, stdout>>
    /\ pos' = pos + 1
    /\ UNCHANGED <<argv, input, args, pc, exitStatus, error, seqnum, nfile, ndigits,
                   perfile, remain, perthisfile, inOpen, prompted, answer, first>>

\* splits, lines 128-141: one line of the write pass
SplitsLine ==
    /\ pc = "write"
    /\ Mode(args) = "splits"
    /\ pos < Len(input)
    /\ LET line == input[pos + 1]
           name == IndexedName(Val(args.prefix), splitnum + 1, ndigits)
       IN  IF IsHeader(line) /\ seqcount + 1 > Val(args.num)
           THEN /\ closed' = closed \cup {Len(created)}
                /\ splitnum' = splitnum + 1
                /\ fs' = WriteLine(OpenW(fs, name), name, line)
                /\ created' = Append(created, name)
                /\ splitfile' = Some(name)
                /\ stdout' = SplitsMsgs(args, stdout, splitnum + 1, nfile)
                /\ seqcount' = 1
           ELSE /\ seqcount' = IF IsHeader(line) THEN seqcount + 1 ELSE seqcount
                /\ fs' = WriteLine(fs, Val(splitfile), line)
                /\ UNCHANGED <<closed, splitnum, created, splitfile, stdout>>
    /\ pos' = pos + 1
    /\ UNCHANGED <<argv, input, args, pc, exitStatus, error, seqnum, nfile, ndigits,
                   perfile, remain, perthisfile, inOpen, prompted, answer, first>>

\* splitn, lines 155-172: the fasta source opened again, the first split file
\* opened with its quota
SplitnOpen ==
    /\ pc = "open"
    /\ Mode(args) = "splitn"
    /\ LET name == IndexedName(Val(args.prefix), 1, ndigits)
           quota == Quota(perfile, remain)
           o == Say(args, stdout, Msg("creating", 1, Val(args.num), <<>>))
       IN  /\ inOpen' = inOpen + 1
           /\ splitnum' = 1
           /\ fs' = OpenW(fs, name)
           /\ created' = Append(created, name)
           /\ splitfile' = Some(name)
           /\ perthisfile' = quota
           /\ remain' = remain - 1
           /\ stdout' = IF ~args.quiet /\ args.verbose > 0
                        THEN Append(o, Msg("contain", 1 + 1, quota, <<>>))
                        ELSE o
           /\ seqcount' = 0
           /\ pc' = "write"
    /\ UNCHANGED <<argv, input, args, exitStatus, error, seqnum, nfile, ndigits, perfile,
                   pos, closed, prompted, answer, first>>

\* splitn, lines 173-195: one line of the write pass
SplitnLine ==
    /\ pc = "write"
    /\ Mode(args) = "splitn"
    /\ pos < Len(input)
    /\ LET line == input[pos + 1]
           name == IndexedName(Val(args.prefix), splitnum + 1, ndigits)
           quota == Quota(perfile, remain)
           o1 == IF IsHeader(line) /\ args.verbose > 2
                 THEN Append(stdout, Msg("adding", 0, 0, Strip(Tail(line))))
                 ELSE stdout
           o2 == Say(args, o1, Msg("creating", splitnum + 1, Val(args.num), <<>>))
       IN  IF IsHeader(line) /\ seqcount + 1 > perthisfile
           THEN /\ closed' = closed \cup {Len(created)}
                /\ splitnum' = splitnum + 1
                /\ fs' = WriteLine(OpenW(fs, name), name, line)
                /\ created' = Append(created, name)
                /\ splitfile' = Some(name)
                /\ perthisfile' = quota
                /\ remain' = remain - 1
                /\ stdout' = IF args.verbose > 0
                             THEN Append(o2, Msg("contain", splitnum + 1, quota, <<>>))
                             ELSE o2
                /\ seqcount' = 1
           ELSE /\ seqcount' = IF IsHeader(line) THEN seqcount + 1 ELSE seqcount
                /\ fs' = WriteLine(fs, Val(splitfile), line)
                /\ stdout' = o1
                /\ UNCHANGED <<closed, splitnum, created, splitfile, perthisfile, remain>>
    /\ pos' = pos + 1
    /\ UNCHANGED <<argv, input, args, pc, exitStatus, error, seqnum, nfile, ndigits,
                   perfile, inOpen, prompted, answer, first>>

\* end of input: the with block closes the fasta source, the function
\* returns and the process exits with status 0
Finish ==
    /\ pc = "write"
    /\ pos = Len(input)
    /\ Exit(0, "")
    /\ inOpen' = inOpen - 1
    /\ UNCHANGED <<argv, input, args, seqnum, nfile, ndigits, splitnum, seqcount,
                   perfile, remain, perthisfile, pos, splitfile, fs, created, closed,
                   prompted, answer, stdout, first>>

Next ==
    \/ Main
    \/ CountOpen
    \/ SpliteCount
    \/ SplitsCount
    \/ SplitnCount
    \/ Confirm
    \/ SpliteOpen
    \/ SpliteLine
    \/ SpliteBind
    \/ SplitsOpen
    \/ SplitsLine
    \/ SplitnOpen
    \/ SplitnLine
    \/ Finish

Spec == Init /\ [][Next]_vars

----------------------------------------------------------------------------
(* Properties *)

\* the run is over
Done == pc = "done"

\* the run is over and its write pass read the input to the end
Completed == Done /\ error = ""

\* the run is over and had entered its write pass
WritePassEnded == Done /\ error \in {"", "UnboundLocalError", "IndexError"}

\* the lines of the first k files opened, in the order the files were opened
RECURSIVE Concat(_)
Concat(k) == IF k = 0 THEN <<>> ELSE Concat(k - 1) \o fs[created[k]]

\* the sequences of the input
Total == CountHeaders(input)

\* the sequences of the i-th file opened
HeadersIn(i) == CountHeaders(fs[created[i]])

HasBody(lines) == \E i \in 1..Len(lines) : ~IsHeader(lines[i])

\* C1 as stated: in each of the three modes, once the write pass has ended,
\* the lines of the output files, concatenated in the order the files were
\* created, are the lines of the input
C1_LineConservation ==
    WritePassEnded => Concat(Len(created)) = input

\* C1 amended: the same for every input in splits and splitn, and in splite
\* for every input that is empty or starts with a header line
C1_LineConservationFromHeader ==
    (/\ WritePassEnded
     /\ Mode(args) = "splite" => (input = <<>> \/ IsHeader(input[1])))
    => /\ Completed
       /\ Concat(Len(created)) = input

\* C1: a run has ended that split an input with body lines into several files
C1_Witness ==
    /\ Completed
    /\ Len(created) >= 2
    /\ HasBody(input)
    /\ Len(input) >= 3

\* C2: in splitn, with T sequences in the input and F files requested, the
\* i-th file opened is the file of index i and holds (T div F) + 1 header
\* lines when i <= T mod F, and T div F header lines otherwise
C2_SplitnQuotas ==
    (Completed /\ Mode(args) = "splitn") =>
        \A i \in 1..Len(created) :
            /\ created[i] = IndexedName(Val(args.prefix), i, ndigits)
            /\ HeadersIn(i) = (Total \div Val(args.num))
                              + (IF i <= Total % Val(args.num) THEN 1 ELSE 0)

\* C2: a splitn run has ended whose sequences do not divide evenly
C2_Witness ==
    /\ Completed
    /\ Mode(args) = "splitn"
    /\ Total % Val(args.num) > 0
    /\ Total \div Val(args.num) > 0
    /\ Len(created) = Val(args.num)
    /\ HasBody(input)

\* ceil(t / n)
CeilDiv(t, n) == (t + n - 1) \div n

RECURSIVE Pow10(_)
Pow10(k) == IF k = 0 THEN 1 ELSE 10 * Pow10(k - 1)

\* C3 as stated: in splits with N sequences per file, every file but the last
\* holds exactly N header lines, the last holds the remainder, between 1 and
\* N, and no file holds more than N
C3_SplitsQuotas ==
    (Completed /\ Mode(args) = "splits") =>
        LET n == Len(created)
            N == Val(args.num)
        IN  /\ \A i \in 1..(n - 1) : HeadersIn(i) = N
            /\ \A i \in 1..n : HeadersIn(i) <= N
            /\ HeadersIn(n) = Total - N * (n - 1)
            /\ HeadersIn(n) >= 1

\* C4 as stated: in splits with a counted source the number of files the
\* write pass creates is the planned number nfile = ceil(T / N), for T = 0 too
C4_SplitsFileCount ==
    (Completed /\ Mode(args) = "splits" /\ args.fasta # Stdin) =>
        /\ nfile = CeilDiv(Total, Val(args.num))
        /\ Len(created) = nfile

\* C5 as stated: splitn with F files requested creates exactly the files of
\* index 1..F, whatever the number of sequences
C5_SplitnCreatesF ==
    (Completed /\ Mode(args) = "splitn") =>
        LET F == Val(args.num)
        IN  created = [i \in 1..F |-> IndexedName(Val(args.prefix), i, Digits(F))]

\* C6 as stated: the index width is the number of decimal digits of the
\* largest index used, so every index written is below 10^width, with a file
\* source and with standard input
C6_DigitWidth ==
    (Completed /\ created # <<>>) =>
        /\ ndigits = Digits(Len(created))
        /\ \A i \in 1..Len(created) :
               /\ created[i] = IndexedName(Val(args.prefix), i, ndigits)
               /\ i < Pow10(ndigits)

\* C7: no output file exists and no handle is open while the question is
\* asked, and once the operator has answered n the run is over with a
\* non-zero exit status and no output file was opened or created
C7_AbortGate ==
    /\ pc = "confirm" => (created = <<>> /\ DOMAIN fs = {} /\ inOpen = 0)
    /\ Lower(answer) = "n" =>
           /\ Done
           /\ exitStatus # 0
           /\ created = <<>>
           /\ DOMAIN fs = {}
           /\ splitfile = None

\* C7: the operator has declined a splits run planned to create more files
\* than the limit
C7_Witness ==
    /\ answer = "N"
    /\ Mode(args) = "splits"
    /\ ~args.force
    /\ nfile > Limit
    /\ Done

\* C8 as stated: with a file source or with standard input, a run without
\* --force has more than Limit output files only after the operator answered y
C8_ConfirmMandatory ==
    (~args.force /\ Len(created) > Limit) => (prompted /\ Lower(answer) = "y")

\* C8 amended: with a file source, a run without --force has more than Limit
\* output files only after the operator answered y, and the question is asked
\* before the first output file is opened
C8_ConfirmMandatoryFile ==
    /\ (args.fasta # Stdin /\ ~args.force /\ Len(created) > Limit)
           => (prompted /\ Lower(answer) = "y")
    /\ prompted /\ created # <<>> => Lower(answer) = "y"
    /\ pc = "confirm" => created = <<>>

\* C8: a splite run without --force has created more files than the limit
\* after the operator agreed
C8_Witness ==
    /\ Mode(args) = "splite"
    /\ args.fasta # Stdin
    /\ ~args.force
    /\ Len(created) > Limit
    /\ answer = "y"

\* a write pass has begun
WritePassBegun == pc = "write" \/ created # <<>>

\* C9 as stated: splits and splitn begin the write pass with the sequence
\* count known, and on standard input either is rejected: the run ends with a
\* non-zero exit status and no output file opened
C9_CountModesNeedCount ==
    (pc # "start" /\ Mode(args) \in {"splits", "splitn"}) =>
        /\ WritePassBegun => seqnum = Total
        /\ args.fasta = Stdin => (Done /\ exitStatus # 0 /\ created = <<>>)

\* C9 amended: splitn begins the write pass with the sequence count known, and
\* on standard input it is rejected with a non-zero exit status and no output
\* file opened; splits has the count only with a file source: on standard
\* input it is accepted and runs its write pass without a count
C9_SplitnNeedsCount ==
    /\ (pc # "start" /\ Mode(args) = "splitn") =>
           /\ WritePassBegun => seqnum = Total
           /\ args.fasta = Stdin => (Done /\ exitStatus # 0 /\ created = <<>>)
    /\ (pc # "start" /\ Mode(args) = "splits") =>
           /\ (WritePassBegun /\ args.fasta # Stdin) => seqnum = Total
           /\ (args.fasta = Stdin /\ error # "usage") =>
                  (seqnum = Unknown /\ nfile = Unknown /\ error = "")
           /\ (args.fasta = Stdin /\ Done /\ error # "usage") =>
                  (exitStatus = 0 /\ created # <<>>)

\* C9: splitn was selected with standard input and the run was rejected
C9_Witness ==
    /\ Mode(args) = "splitn"
    /\ args.fasta = Stdin
    /\ error = "ArgumentError"
    /\ exitStatus = 1
    /\ Done

\* C10 as stated: splite run without -p and without -f names each file after
\* its header's first word without '>', or the second word when the first is
\* a bare '>', followed by '.fa'
C10_DefaultNaming ==
    (/\ pc \in {"write", "done"}
     /\ Mode(args) = "splite"
     /\ argv.prefix = None
     /\ ~argv.full) =>
        \A i \in 1..pos :
            IsHeader(input[i]) =>
                WordName(input[i]) # None /\ Val(WordName(input[i])) \in DOMAIN fs

----------------------------------------------------------------------------
(* splite called with a namespace of the caller's own *)

\* the namespaces splite reads: args.prefix may be None, which parse_args
\* never returns, and then args.full chooses between the two header namings
\* (two headers may then give one name: the second open() truncates the
\* file while the first handle is still unflushed, and what the file holds in
\* the end is not followed here; this specification is used for the names)
DirectArgs ==
    [fasta : {Path, Stdin},
     num : {None},
     seqnum : {FALSE},
     every : {TRUE},
     force : BOOLEAN,
     prefix : {None, Some(<<"p">>)},
     full : BOOLEAN,
     quiet : BOOLEAN,
     verbose : 0..MaxVerbose]

\* splite(args): the state at the entry of splite
InitDirect ==
    /\ argv \in DirectArgs
    /\ input \in Inputs
    /\ args = argv
    /\ pc = IF argv.fasta # Stdin THEN "count" ELSE "open"
    /\ exitStatus = 0
    /\ error = ""
    /\ seqnum = Unknown
    /\ nfile = Unknown
    /\ ndigits = 0
    /\ splitnum = 0
    /\ seqcount = 0
    /\ perfile = 0
    /\ remain = 0
    /\ perthisfile = 0
    /\ pos = 0
    /\ splitfile = None
    /\ fs = <<>>
    /\ created = <<>>
    /\ closed = {}
    /\ inOpen = 0
    /\ prompted = FALSE
    /\ answer = ""
    /\ stdout = <<>>
    /\ first = None

NextDirect ==
    \/ CountOpen
    \/ SpliteCount
    \/ Confirm
    \/ SpliteOpen
    \/ SpliteLine
    \/ SpliteBind
    \/ Finish

SpecDirect == InitDirect /\ [][NextDirect]_vars

\* the string s ends with suf
EndsWith(s, suf) ==
    /\ Len(s) >= Len(suf)
    /\ SubSeq(s, Len(s) - Len(suf) + 1, Len(s)) = suf

\* C11 as stated: every output file opened, with the indexed name, the name
\* from the header's first word or the name from the full header, has a name
\* that ends in '.fa'
C11_SuffixFa ==
    \A i \in 1..Len(created) : EndsWith(created[i], Suffix)

----------------------------------------------------------------------------
(* Two runs of the command, one after the other *)

\* the runs start without -q and without -v
InitRef == Init /\ ~argv.quiet /\ argv.verbose = 0

\* what a run leaves behind: the files opened in order, the directory, the
\* operator's last answer and the exit status
Outcome ==
    [created |-> created, fs |-> fs, answer |-> Lower(answer), status |-> exitStatus]

\* a new process is started on the same input with the command line cmd in
\* the directory dir; the outcome of the run that ended is kept in first
Restart(cmd, dir) ==
    /\ pc = "done"
    /\ first = None
    /\ first' = Some(Outcome)
    /\ argv' = cmd
    /\ args' = cmd
    /\ fs' = dir
    /\ pc' = "start"
    /\ exitStatus' = 0
    /\ error' = ""
    /\ seqnum' = Unknown
    /\ nfile' = Unknown
    /\ ndigits' = 0
    /\ splitnum' = 0
    /\ seqcount' = 0
    /\ perfile' = 0
    /\ remain' = 0
    /\ perthisfile' = 0
    /\ pos' = 0
    /\ splitfile' = None
    /\ created' = <<>>
    /\ closed' = {}
    /\ inOpen' = 0
    /\ prompted' = FALSE
    /\ answer' = ""
    /\ stdout' = <<>>
    /\ UNCHANGED input

\* the same command is run again, in the directory the first run left or in
\* an empty one
RunAgain == \E keep \in BOOLEAN : Restart(argv, IF keep THEN fs ELSE <<>>)

NextRerun == Next \/ RunAgain

SpecRerun == InitRef /\ [][NextRerun]_vars

\* the second run is over, and the operator answered it as the first
SecondRunDone == Done /\ first # None /\ Lower(answer) = Val(first).answer

\* C12: a second run of the same command on the same input, into an empty
\* directory or into the directory the first run left, opens the same files in
\* the same order, leaves exactly the same files with the same lines and ends
\* with the same exit status
C12_SameFilesAgain ==
    SecondRunDone =>
        /\ created = Val(first).created
        /\ fs = Val(first).fs
        /\ exitStatus = Val(first).status

\* C12: a second run of the same command has ended after creating several
\* files with header and body lines
C12_Witness ==
    /\ SecondRunDone
    /\ Completed
    /\ Len(created) >= 2
    /\ HasBody(input)
    /\ stdout # <<>>
    /\ \A i \in 1..Len(created) : fs[created[i]] # <<>>

\* the same command is run again in an empty directory with any -q and -v
RunVerbose ==
    \E q \in BOOLEAN, v \in 0..MaxVerbose :
        Restart([argv EXCEPT !.quiet = q, !.verbose = v], <<>>)

NextVerbose == Next \/ RunVerbose

SpecVerbose == InitRef /\ [][NextVerbose]_vars

\* C13: a run with any quiet flag and any verbosity level opens the same
\* output files in the same order and writes the same lines to each as the run
\* of the same command on the same input without -q and without -v; so any two
\* runs that differ only in these options agree with each other
C13_VerbosityKeepsPartition ==
    SecondRunDone =>
        /\ created = Val(first).created
        /\ \A i \in 1..Len(created) : fs[created[i]] = Val(first).fs[created[i]]
        /\ DOMAIN fs = DOMAIN Val(first).fs

\* C13: a run at the highest verbosity level has ended after the run without
\* -v, with several files created and progress messages printed
C13_Witness ==
    /\ SecondRunDone
    /\ Completed
    /\ argv.verbose = MaxVerbose
    /\ ~argv.quiet
    /\ Len(created) >= 2
    /\ HasBody(input)
    /\ \E i \in 1..Len(stdout) : stdout[i].msg = "contain"

----------------------------------------------------------------------------
(* Output handles *)

\* the write pass is running
InWritePass == pc \in {"write", "bind"}

\* the files of `created`, by position, that the write pass holds a handle
\* to: the one splitfile is bound to and, between open() and the assignment
\* in splite, the one just opened
Held ==
    IF pc = "bind"
    THEN {Len(created)} \cup (IF splitfile # None THEN {Len(created) - 1} ELSE {})
    ELSE IF splitfile # None THEN {Len(created)} ELSE {}

\* the handles held that no close() was called on
OpenOutputs == Held \ closed

\* C14 as stated: while the write pass runs, in each mode, once an output
\* file has been opened exactly one output handle is open, and every file
\* opened before the current one has been closed
C14_OneOutputOpen ==
    (InWritePass /\ created # <<>>) =>
        /\ Cardinality(OpenOutputs) = 1
        /\ \A i \in 1..(Len(created) - 1) : i \in closed

\* C15 as stated: in each mode, when the write pass has read the input to the
\* end and the run is over, close() has been called on every output file that
\* was opened, the last one included
C15_AllOutputsClosed ==
    Completed => \A i \in 1..Len(created) : i \in closed

----------------------------------------------------------------------------
(* The two passes *)

\* the run counts its sequences: splitn always, splite and splits with a
\* file source
Counts(a) == Mode(a) = "splitn" \/ a.fasta # Stdin

\* C16: at most one handle on the fasta source is open at any time; while the
\* counting pass holds its handle no output file is open and no line of the
\* write pass is read; the counting handle is closed when the question is
\* asked and when the write pass is about to open its own; and in a run that
\* counts, the write pass starts with the count of the whole input
C16_PassOrdering ==
    /\ inOpen \in {0, 1}
    /\ pc = "counting" => (inOpen = 1 /\ created = <<>> /\ splitfile = None /\ pos = 0)
    /\ pc \in {"confirm", "open"} => inOpen = 0
    /\ InWritePass => inOpen = 1
    /\ (pc # "start" /\ Counts(args) /\ (InWritePass \/ created # <<>>)) =>
           seqnum = Total

\* C16: the write pass of a run that counted a file with several sequences is
\* under way, with an output file open
C16_Witness ==
    /\ InWritePass
    /\ args.fasta # Stdin
    /\ seqnum = Total
    /\ Total >= 2
    /\ pos >= 1
    /\ created # <<>>
    /\ inOpen = 1

----------------------------------------------------------------------------
(* Lines before the first header *)

\* the number of lines before the first header line
RECURSIVE Lead(_)
Lead(lines) ==
    IF lines = <<>> \/ IsHeader(Head(lines)) THEN 0 ELSE 1 + Lead(Tail(lines))

Min(a, b) == IF a <= b THEN a ELSE b

\* the number of sequences the first file is due
FirstQuota ==
    IF Mode(args) = "splits" THEN Min(Val(args.num), Total)
    ELSE (Total \div Val(args.num)) + (IF Total % Val(args.num) >= 1 THEN 1 ELSE 0)

\* C17: in splits and splitn, with k >= 1 body lines before the first header:
\* while the write pass reads them they go to the first file and seqcount
\* stays 0; when the run has ended the first file starts with these k lines
\* and still holds its full quota of header lines, and the files together
\* hold every input line in order
C17_LeadingBody ==
    (Mode(args) \in {"splits", "splitn"} /\ Lead(input) >= 1) =>
        LET k == Lead(input)
        IN  /\ (InWritePass /\ pos <= k) =>
                   /\ seqcount = 0
                   /\ Len(created) = 1
                   /\ fs[created[1]] = SubSeq(input, 1, pos)
            /\ Completed =>
                   /\ SubSeq(fs[created[1]], 1, k) = SubSeq(input, 1, k)
                   /\ HeadersIn(1) = FirstQuota
                   /\ Concat(Len(created)) = input

\* C17: a run in a count-based mode has ended whose input starts with a body
\* line and was split into two files
C17_Witness ==
    /\ Completed
    /\ Mode(args) \in {"splits", "splitn"}
    /\ Lead(input) >= 1
    /\ Len(created) >= 2
    /\ HeadersIn(1) >= 1

\* C18: in splite with an input whose first line is a body line, no line is
\* ever consumed, no output file is opened or written, the run never ends
\* with exit status 0, and a run that reached the write pass ends with the
\* exception raised at the first line
C18_BodyFirstFails ==
    (Mode(args) = "splite" /\ input # <<>> /\ ~IsHeader(input[1])) =>
        /\ pos = 0
        /\ created = <<>>
        /\ DOMAIN fs = {}
        /\ splitfile = None
        /\ Done => exitStatus # 0
        /\ (Done /\ splitnum >= 1) => (error = "UnboundLocalError" /\ exitStatus = 1)

\* C18: a splite run on an input with a body line before its first header
\* has ended in the write pass
C18_Witness ==
    /\ Mode(args) = "splite"
    /\ Lead(input) >= 1
    /\ Total >= 1
    /\ Done
    /\ splitnum >= 1
    /\ error = "UnboundLocalError"

----------------------------------------------------------------------------
(* Progress messages *)

IsContain(m) == m.msg = "contain"

\* the "Split file i will contain c sequences" messages, in order
ContainMsgs == SelectSeq(stdout, IsContain)

\* C19 as stated: in splits and splitn without -q and with -v, when the run
\* has ended there is one such message per file opened, the i-th naming the
\* index i and the number of header lines the i-th file holds
C19_ReportMatchesFile ==
    (/\ Completed
     /\ Mode(args) \in {"splits", "splitn"}
     /\ ~args.quiet
     /\ args.verbose >= 1) =>
        /\ Len(ContainMsgs) = Len(created)
        /\ \A i \in 1..Len(created) :
               /\ created[i] = IndexedName(Val(args.prefix), ContainMsgs[i].n, ndigits)
               /\ ContainMsgs[i].of = HeadersIn(i)

\* the header texts the "Creating split file" messages carry
HeaderTexts == {stdout[i].text : i \in {j \in 1..Len(stdout) : stdout[j].msg = "creating"}}

\* C20 as stated: in splite without -q and with -v given at least twice, when
\* the run has ended every header line read has a message that carries its
\* text
C20_HeaderReported ==
    (/\ Completed
     /\ Mode(args) = "splite"
     /\ ~args.quiet
     /\ args.verbose >= 2) =>
        \A i \in 1..Len(input) :
            IsHeader(input[i]) => Tail(Strip(input[i])) \in HeaderTexts

====
